---- MODULE Spec2Model ----
(***************************************************************************)
(* Progress streaming gateway of the AI-dj backend                         *)
(* (services/backend/src/main.rs, services/backend/src/db.rs).             *)
(*                                                                         *)
(* A text (channel name, session id, bus payload, message sent to a        *)
(* client) is a sequence of tokens; a token stands for a run of characters *)
(* that none of the operations below splits.  The double quote, the        *)
(* escaped double quote, the braces, the colon and the comma are tokens of *)
(* their own, so that suffix tests, substring tests, splicing with format! *)
(* and JSON parsing act on the text as the code acts on the characters.    *)
(* Insignificant JSON white space is left out of the texts.                *)
(***************************************************************************)
EXTENDS Integers, Sequences, FiniteSets, TLC

\* ------------------------------------------------------------------ texts

Q == "\""
EQ == "\\\""
LB == "{"
RB == "}"
COLON == ":"
COMMA == ","

NumTok == {"1", "2", "5"}

\* str::ends_with
EndsWith(s, suf) ==
    /\ Len(s) >= Len(suf)
    /\ SubSeq(s, Len(s) - Len(suf) + 1, Len(s)) = suf

\* str::contains
Contains(s, pat) ==
    \E i \in 1..(Len(s) - Len(pat) + 1) : SubSeq(s, i, i + Len(pat) - 1) = pat

\* str::starts_with, used by the glob match of the bus
StartsWith(s, pre) ==
    /\ Len(s) >= Len(pre)
    /\ SubSeq(s, 1, Len(pre)) = pre

\* ------------------------------------------------------------------- JSON
\* serde_json::Value, restricted to numbers, strings and objects.

JNum(n) == [j |-> "num", n |-> n]
JStr(s) == [j |-> "str", s |-> s]
JObj(m) == [j |-> "obj", m |-> m]

None == [some |-> FALSE]
Some(v) == [some |-> TRUE, v |-> v]

ParseFail == [ok |-> FALSE]
ParseOk(v, next) == [ok |-> TRUE, v |-> v, next |-> next]

\* the position of the quote closing a string literal that opens before i
ClosingQuote(t, i) ==
    IF \E k \in i..Len(t) : t[k] = Q
    THEN CHOOSE k \in i..Len(t) : t[k] = Q /\ \A m \in i..(k - 1) : t[m] # Q
    ELSE 0

\* the characters of a string literal's body, escapes resolved
Unescape(s) == [k \in 1..Len(s) |-> IF s[k] = EQ THEN Q ELSE s[k]]

\* the body of the string literal serde writes for s
Escape(s) == [k \in 1..Len(s) |-> IF s[k] = Q THEN EQ ELSE s[k]]

RECURSIVE ParseValue(_, _), ParseMembers(_, _, _)

\* one JSON value of text t starting at position i
ParseValue(t, i) ==
    IF i > Len(t) THEN ParseFail
    ELSE IF t[i] \in NumTok THEN ParseOk(JNum(t[i]), i + 1)
    ELSE IF t[i] = Q THEN
        LET c == ClosingQuote(t, i + 1)
        IN  IF c = 0 THEN ParseFail
            ELSE ParseOk(JStr(Unescape(SubSeq(t, i + 1, c - 1))), c + 1)
    ELSE IF t[i] = LB THEN
        IF i + 1 <= Len(t) /\ t[i + 1] = RB
        THEN ParseOk(JObj(<<>>), i + 2)
        ELSE ParseMembers(t, i + 1, <<>>)
    ELSE ParseFail

\* the members of an object from position i on, m holding those read so far;
\* a repeated key keeps its last value
ParseMembers(t, i, m) ==
    IF i > Len(t) \/ t[i] # Q THEN ParseFail
    ELSE
        LET c == ClosingQuote(t, i + 1)
        IN  IF c = 0 \/ c + 1 > Len(t) \/ t[c + 1] # COLON THEN ParseFail
            ELSE
                LET key == Unescape(SubSeq(t, i + 1, c - 1))
                    val == ParseValue(t, c + 2)
                IN  IF ~val.ok \/ val.next > Len(t) THEN ParseFail
                    ELSE
                        LET m2 == (key :> val.v) @@ m
                        IN  IF t[val.next] = RB
                            THEN ParseOk(JObj(m2), val.next + 1)
                            ELSE IF t[val.next] = COMMA
                            THEN ParseMembers(t, val.next + 1, m2)
                            ELSE ParseFail

\* serde_json::from_str::<serde_json::Value>: the whole text is one value
from_str(t) ==
    LET r == ParseValue(t, 1)
    IN  IF r.ok /\ r.next = Len(t) + 1 THEN Some(r.v) ELSE None

RECURSIVE KeySeq(_)
\* the keys of an object in the order serde writes them (a fixed order)
KeySeq(S) ==
    IF S = {} THEN <<>>
    ELSE LET k == CHOOSE x \in S : TRUE IN <<k>> \o KeySeq(S \ {k})

RECURSIVE to_string(_), WriteMembers(_, _)

\* serde_json::Value::to_string
to_string(v) ==
    IF v.j = "num" THEN <<v.n>>
    ELSE IF v.j = "str" THEN <<Q>> \o Escape(v.s) \o <<Q>>
    ELSE <<LB>> \o WriteMembers(v.m, KeySeq(DOMAIN v.m)) \o <<RB>>

WriteMembers(m, keys) ==
    IF keys = <<>> THEN <<>>
    ELSE <<Q>> \o Escape(Head(keys)) \o <<Q, COLON>> \o to_string(m[Head(keys)])
         \o (IF Len(keys) > 1 THEN <<COMMA>> ELSE <<>>)
         \o WriteMembers(m, Tail(keys))

\* serde_json::Value::get with a string index
Get(v, key) ==
    IF v.j = "obj" /\ key \in DOMAIN v.m THEN Some(v.m[key]) ELSE None

\* Option<&Value>::and_then(|x| x.as_str())
AsStr(o) ==
    IF o.some /\ o.v.j = "str" THEN Some(o.v.s) ELSE None

\* ------------------------------------------------- sessions and channels

\* session ids as they come from the request path: two that are UUID texts
\* and one opaque id that is not
U1 == <<"u1">>
U2 == <<"u2">>
X == <<"x">>

\* Uuid::parse_str: Ok(uuid) for a UUID text, Err otherwise
parse_str(sid) ==
    IF sid = U1 THEN Some("uuid-1")
    ELSE IF sid = U2 THEN Some("uuid-2")
    ELSE None

\* format!("mix:{}:progress", session_id) and its two siblings
progress_channel(sid) == <<"mix", COLON>> \o sid \o <<COLON, "progress">>
complete_channel(sid) == <<"mix", COLON>> \o sid \o <<COLON, "complete">>
error_channel(sid) == <<"mix", COLON>> \o sid \o <<COLON, "error">>

\* the pattern "mix:*:*" of the duplex adapter
wildcard_pattern == <<"mix", COLON, "*", COLON, "*">>

\* the glob match of the bus for the pattern mix:*:* : a star matches any
\* run of characters, the empty one included
MatchesWildcard(ch) ==
    /\ StartsWith(ch, <<"mix", COLON>>)
    /\ \E k \in 3..Len(ch) : ch[k] = COLON

\* whether a subscription to pattern pat receives a message on channel ch
Matches(pat, ch) ==
    IF pat = wildcard_pattern THEN MatchesWildcard(ch) ELSE pat = ch

\* a classification that takes every other channel for a progress channel
ws_message_type_default(ch) ==
    IF EndsWith(ch, <<COLON, "complete">>) THEN "complete"
    ELSE IF EndsWith(ch, <<COLON, "error">>) THEN "error"
    ELSE "progress"

\* the duplex adapter's classification of a channel (ends_with chain)
ws_message_type(ch) ==
    IF EndsWith(ch, <<COLON, "complete">>) THEN "complete"
    ELSE IF EndsWith(ch, <<COLON, "error">>) THEN "error"
    ELSE IF EndsWith(ch, <<COLON, "progress">>) THEN "progress"
    ELSE "unknown"

\* the unidirectional adapter's classification of a channel (contains chain)
sse_message_type(ch) ==
    IF Contains(ch, <<COLON, "complete">>) THEN "complete"
    ELSE IF Contains(ch, <<COLON, "error">>) THEN "error"
    ELSE "progress"

IsTerminal(ty) == ty = "complete" \/ ty = "error"

\* --------------------------------------------------- messages to a client

\* format!("{{\"type\": \"connected\", \"session_id\": \"{}\"}}", session_id)
connected_text(sid) ==
    <<LB, Q, "type", Q, COLON, Q, "connected", Q, COMMA,
      Q, "session_id", Q, COLON, Q>> \o sid \o <<Q, RB>>

\* format!("{{\"error\": \"<what>: {}\"}}", e), e a library error's text
failure_text(what) ==
    <<LB, Q, "error", Q, COLON, Q, what, "E", Q, RB>>

\* the duplex adapter's envelope: the payload parsed, or wrapped as raw
ws_message(message_type, payload) ==
    LET parsed == from_str(payload)
        data == IF parsed.some THEN parsed.v
                ELSE JObj(<<"raw">> :> JStr(payload))
    IN  to_string(JObj((<<"type">> :> JStr(<<message_type>>))
                       @@ (<<"data">> :> data)))

\* the unidirectional adapter's envelope: the payload spliced into the text
sse_message(message_type, payload) ==
    <<LB, Q, "type", Q, COLON, Q, message_type, Q, COMMA,
      Q, "data", Q, COLON>> \o payload \o <<RB>>

\* ------------------------------------------------------------ the store
\* One row of dj_mix_sessions: the columns the gateway writes.

NewRow == [status |-> "generating", completed_at |-> None,
           error_message |-> None, cdn_url |-> None]

\* UPDATE ... WHERE id = $n changes the row with that id, if there is one
update_mix_cdn_url(st, id, cdn_url) ==
    IF id \in DOMAIN st
    THEN [st EXCEPT ![id].cdn_url = Some(cdn_url)]
    ELSE st

update_mix_status(st, id, status, t) ==
    IF id \in DOMAIN st
    THEN [st EXCEPT ![id].status = status, ![id].completed_at = Some(t)]
    ELSE st

\* an error update that leaves the completion time alone
update_mix_error_unstamped(st, id, error_message, t) ==
    IF id \in DOMAIN st
    THEN [st EXCEPT ![id].status = "error",
                    ![id].error_message = Some(error_message)]
    ELSE st

\* UPDATE ... SET status = 'error', error_message, completed_at = now
update_mix_error(st, id, error_message, t) ==
    IF id \in DOMAIN st
    THEN [st EXCEPT ![id].status = "error",
                    ![id].error_message = Some(error_message),
                    ![id].completed_at = Some(t)]
    ELSE st

\* ----------------------------------------------------------- the bounds

MaxConns == 2
MaxPub == 3
MaxFrames == 1
MaxBacklog == 2
MaxIntervals == 1

\* the heartbeat period of the duplex adapter, in seconds
heartbeat_secs == 30

Conns == 1..MaxConns

\* the connection followed where one connection is looked at alone
Single == {1}

\* the session ids clients connect with
ConnSids == {U1, X}

\* bus payloads: two progress reports, a completion carrying the result
\* location, an error report, and a text that is not JSON
P1 == <<LB, Q, "n", Q, COLON, "1", RB>>
P2 == <<LB, Q, "n", Q, COLON, "2", RB>>
DONE == <<LB, Q, "cdn_url", Q, COLON, Q, "u", Q, RB>>
ERRP == <<LB, Q, "error", Q, COLON, Q, "boom", Q, RB>>
BAD == <<LB, Q, "n", Q, COLON>>

Msg(ch, payload, utf8) == [channel |-> ch, payload |-> payload, utf8 |-> utf8]

\* what the job, or anyone sharing the bus, may publish: on the channels of
\* session u1 every payload, on a channel of u1 with a suffix the gateway
\* does not know, with a payload that is no UTF-8 text, and on the channels
\* of session x
PubMsgs ==
    {Msg(progress_channel(U1), p, TRUE) : p \in {P1, P2, BAD}}
    \cup {Msg(complete_channel(U1), p, TRUE) : p \in {DONE, BAD}}
    \cup {Msg(error_channel(U1), ERRP, TRUE)}
    \cup {Msg(<<"mix", COLON>> \o U1 \o <<COLON, "status">>, P1, TRUE)}
    \cup {Msg(complete_channel(U1), DONE, FALSE)}
    \cup {Msg(progress_channel(X), P1, TRUE),
          Msg(complete_channel(X), DONE, TRUE),
          Msg(error_channel(X), ERRP, TRUE)}

\* the messages published where the client and the timer act as well
CoreMsgs ==
    {Msg(progress_channel(U1), P1, TRUE),
     Msg(complete_channel(U1), DONE, TRUE),
     Msg(error_channel(U1), ERRP, TRUE),
     Msg(<<"mix", COLON>> \o U1 \o <<COLON, "status">>, P1, TRUE),
     Msg(complete_channel(X), DONE, TRUE)}

\* frames a duplex client may send; Err and End are the receive error and
\* the end of the client stream
PingData == {<<>>, <<"a">>}

Frame(kind, data) == [kind |-> kind, data |-> data]

Frames ==
    {Frame("Ping", d) : d \in PingData}
    \cup {Frame(k, <<>>) : k \in {"Pong", "Close", "Text", "Err", "End"}}

\* ------------------------------------------------------------- the state

VARIABLES
    conn,     \* per connection: adapter kind, session id, position, why closed,
              \* and when a duplex loop last forwarded a message or read a frame
    subs,     \* per connection: the patterns its bus subscription holds
    queue,    \* per connection: bus messages delivered and not yet read
    log,      \* per connection: what the handler did, in order
    store,    \* dj_mix_sessions: uuid -> row
    alive,    \* per connection: whether the transport to the client is up
    beat,     \* per connection: the time of the next heartbeat tick
    now,      \* the clock, in seconds
    npub,     \* how many messages were published
    input,    \* the argument of the function looked at alone, if any
    output,   \* its results so far
    OAUTH_STATE_STORE, \* the OAuth states stored: state -> created_at
    issued,   \* how many states generate_state has produced
    validated \* the validate_state calls so far, with their results

\* the state of the OAuth state store
oauth_vars == <<OAUTH_STATE_STORE, issued, validated>>

vars == <<conn, subs, queue, log, store, alive, beat, now, npub, input, output,
          OAUTH_STATE_STORE, issued, validated>>

Ev(e, a, ok) == [e |-> e, a |-> a, ok |-> ok]
NoArg == <<>>

SendEv(frame, body, ok) == Ev("send", [frame |-> frame, body |-> body], ok)
StoreEv(op, id, arg, t, ok) ==
    Ev("store", [op |-> op, id |-> id, arg |-> arg, at |-> t], ok)

Idle == [kind |-> "none", sid |-> <<>>, pc |-> "idle", why |-> "none",
         unread |-> 0, nframes |-> 0, traffic |-> -1]

\* the gateway before any connection
GatewayInit ==
    /\ conn = [c \in Conns |-> Idle]
    /\ subs = [c \in Conns |-> {}]
    /\ queue = [c \in Conns |-> <<>>]
    /\ log = [c \in Conns |-> <<>>]
    /\ alive = [c \in Conns |-> TRUE]
    /\ beat = [c \in Conns |-> 0]
    /\ now = 0
    /\ npub = 0
    /\ OAUTH_STATE_STORE = <<>>
    /\ issued = 0
    /\ validated = <<>>

\* the store holds the session row of u1 as create_mix_session writes it,
\* and no row for u2
Init ==
    /\ GatewayInit
    /\ store = ("uuid-1" :> NewRow)
    /\ input = <<>>
    /\ output = <<>>

\* the result of one handler step: the events it appends, where the
\* connection is afterwards, and the store afterwards
Step(evs, pc, why, st) == [evs |-> evs, pc |-> pc, why |-> why, store |-> st]

\* a teardown of one connection that ends the subscriptions of all
AdvanceShared(c, r, rest) ==
    /\ log' = [log EXCEPT ![c] = @ \o r.evs]
    /\ store' = r.store
    /\ IF r.pc = "closed"
       THEN /\ conn' = [conn EXCEPT ![c].pc = "closed", ![c].why = r.why,
                                    ![c].unread = Len(rest)]
            /\ queue' = [d \in Conns |-> <<>>]
            /\ subs' = [d \in Conns |-> {}]
       ELSE /\ conn' = [conn EXCEPT ![c].pc = r.pc]
            /\ queue' = [queue EXCEPT ![c] = rest]
            /\ UNCHANGED subs

\* a teardown that leaves the bus subscription behind
AdvanceDangling(c, r, rest) ==
    /\ log' = [log EXCEPT ![c] = @ \o r.evs]
    /\ store' = r.store
    /\ conn' = [conn EXCEPT ![c].pc = r.pc, ![c].why = r.why]
    /\ queue' = [queue EXCEPT ![c] = rest]
    /\ UNCHANGED subs

\* the connection c moves on by step r; a closed connection drops its bus
\* subscription with whatever it had not read
Advance(c, r, rest) ==
    /\ log' = [log EXCEPT ![c] = @ \o r.evs]
    /\ store' = r.store
    /\ IF r.pc = "closed"
       THEN /\ conn' = [conn EXCEPT ![c].pc = "closed", ![c].why = r.why,
                                    ![c].unread = Len(rest)]
            /\ queue' = [queue EXCEPT ![c] = <<>>]
            /\ subs' = [subs EXCEPT ![c] = {}]
       ELSE /\ conn' = [conn EXCEPT ![c].pc = r.pc,
                                    ![c].traffic =
                                        IF /\ conn[c].kind = "ws"
                                           /\ \E i \in 1..Len(r.evs) :
                                                  r.evs[i].e = "send" /\ r.evs[i].a.frame = "text"
                                        THEN now ELSE @]
            /\ queue' = [queue EXCEPT ![c] = rest]
            /\ UNCHANGED subs

\* ------------------------------------------------------ duplex adapter

\* an opening that goes on to the bus without the store connection
ws_open_without_store(sid, dbok, openok, psok, subok, up) ==
    IF ~openok THEN
        [evs |-> <<Ev("db_new", NoArg, dbok), Ev("redis_open", NoArg, FALSE),
                   SendEv("text", failure_text("Failed to connect to progress stream: "), up)>>,
         pc |-> "closed", why |-> "bus_failed", subs |-> {}]
    ELSE IF ~psok THEN
        [evs |-> <<Ev("db_new", NoArg, dbok), Ev("redis_open", NoArg, TRUE),
                   Ev("get_async_pubsub", NoArg, FALSE),
                   SendEv("text", failure_text("Failed to subscribe to progress: "), up)>>,
         pc |-> "closed", why |-> "bus_failed", subs |-> {}]
    ELSE
        [evs |-> <<Ev("db_new", NoArg, dbok), Ev("redis_open", NoArg, TRUE),
                   Ev("get_async_pubsub", NoArg, TRUE),
                   Ev("psubscribe", wildcard_pattern, subok),
                   SendEv("text", connected_text(sid), up)>>,
         pc |-> "streaming", why |-> "none",
         subs |-> IF subok THEN {wildcard_pattern} ELSE {}]

\* handle_mix_socket up to the loop: the store connection, the bus
\* connection, the pattern subscription and the connection confirmation.
\* dbok, openok, psok, subok say which of the four calls succeed, up whether
\* the socket still takes writes.
ws_open(sid, dbok, openok, psok, subok, up) ==
    IF ~dbok THEN
        [evs |-> <<Ev("db_new", NoArg, FALSE),
                   SendEv("text", failure_text("Database connection failed: "), up)>>,
         pc |-> "closed", why |-> "db_failed", subs |-> {}]
    ELSE IF ~openok THEN
        [evs |-> <<Ev("db_new", NoArg, TRUE), Ev("redis_open", NoArg, FALSE),
                   SendEv("text", failure_text("Failed to connect to progress stream: "), up)>>,
         pc |-> "closed", why |-> "bus_failed", subs |-> {}]
    ELSE IF ~psok THEN
        [evs |-> <<Ev("db_new", NoArg, TRUE), Ev("redis_open", NoArg, TRUE),
                   Ev("get_async_pubsub", NoArg, FALSE),
                   SendEv("text", failure_text("Failed to subscribe to progress: "), up)>>,
         pc |-> "closed", why |-> "bus_failed", subs |-> {}]
    ELSE
        [evs |-> <<Ev("db_new", NoArg, TRUE), Ev("redis_open", NoArg, TRUE),
                   Ev("get_async_pubsub", NoArg, TRUE),
                   Ev("psubscribe", wildcard_pattern, subok),
                   SendEv("text", connected_text(sid), up)>>,
         pc |-> "streaming", why |-> "none",
         subs |-> IF subok THEN {wildcard_pattern} ELSE {}]

WsOpen(c, sid) ==
    /\ conn[c].pc = "idle"
    /\ \E dbok, openok, psok, subok, up \in BOOLEAN :
         LET r == ws_open(sid, dbok, openok, psok, subok, up)
         IN  /\ conn' = [conn EXCEPT ![c].kind = "ws", ![c].sid = sid,
                                      ![c].pc = r.pc, ![c].why = r.why]
             /\ log' = [log EXCEPT ![c] = r.evs]
             /\ subs' = [subs EXCEPT ![c] = r.subs]
             /\ alive' = [alive EXCEPT ![c] = up]
             /\ beat' = [beat EXCEPT ![c] = now + heartbeat_secs]
    /\ UNCHANGED <<queue, store, now, npub, input, output, oauth_vars>>

\* a persistence step that skips the store and never returns early
ws_persist_skipping(st, sid, message_type, payload, t, f) ==
    [ret |-> FALSE, evs |-> <<>>, store |-> st]

\* a persistence step that writes only while the session is generating
ws_persist_first_only(st, sid, message_type, payload, t, f) ==
    LET parsed == from_str(payload)
        session_uuid == parse_str(sid)
    IN  IF /\ session_uuid.some /\ session_uuid.v \in DOMAIN st
           /\ st[session_uuid.v].status # "generating"
        THEN [ret |-> FALSE, evs |-> <<>>, store |-> st]
        ELSE IF message_type = "complete" THEN
            IF ~parsed.some THEN [ret |-> FALSE, evs |-> <<>>, store |-> st]
            ELSE IF ~session_uuid.some THEN [ret |-> TRUE, evs |-> <<>>, store |-> st]
            ELSE
                LET id == session_uuid.v
                    cdn_url == AsStr(Get(parsed.v, <<"cdn_url">>))
                    e1 == IF cdn_url.some
                          THEN <<StoreEv("update_mix_cdn_url", id, cdn_url.v, t, f["cdn"])>>
                          ELSE <<>>
                    s1 == IF cdn_url.some /\ f["cdn"]
                          THEN update_mix_cdn_url(st, id, cdn_url.v)
                          ELSE st
                    e2 == <<StoreEv("update_mix_status", id, <<"completed">>, t, f["status"])>>
                    s2 == IF f["status"]
                          THEN update_mix_status(s1, id, "completed", t)
                          ELSE s1
                IN  [ret |-> FALSE, evs |-> e1 \o e2, store |-> s2]
        ELSE IF message_type = "error" THEN
            IF ~session_uuid.some THEN [ret |-> TRUE, evs |-> <<>>, store |-> st]
            ELSE
                LET id == session_uuid.v
                    field == IF parsed.some
                             THEN AsStr(Get(parsed.v, <<"error">>))
                             ELSE None
                    error_msg == IF field.some THEN field.v ELSE <<"Unknown error">>
                IN  [ret |-> FALSE,
                     evs |-> <<StoreEv("update_mix_error", id, error_msg, t, f["error"])>>,
                     store |-> IF f["error"]
                               THEN update_mix_error(st, id, error_msg, t)
                               ELSE st]
        ELSE [ret |-> FALSE, evs |-> <<>>, store |-> st]

\* the store writes of the duplex adapter for one classified message.
\* f says which store calls succeed; ret is the early return on a session
\* id that is no UUID.
ws_persist(st, sid, message_type, payload, t, f) ==
    LET parsed == from_str(payload)
        session_uuid == parse_str(sid)
    IN  IF message_type = "complete" THEN
            IF ~parsed.some THEN [ret |-> FALSE, evs |-> <<>>, store |-> st]
            ELSE IF ~session_uuid.some THEN [ret |-> TRUE, evs |-> <<>>, store |-> st]
            ELSE
                LET id == session_uuid.v
                    cdn_url == AsStr(Get(parsed.v, <<"cdn_url">>))
                    e1 == IF cdn_url.some
                          THEN <<StoreEv("update_mix_cdn_url", id, cdn_url.v, t, f["cdn"])>>
                          ELSE <<>>
                    s1 == IF cdn_url.some /\ f["cdn"]
                          THEN update_mix_cdn_url(st, id, cdn_url.v)
                          ELSE st
                    e2 == <<StoreEv("update_mix_status", id, <<"completed">>, t, f["status"])>>
                    s2 == IF f["status"]
                          THEN update_mix_status(s1, id, "completed", t)
                          ELSE s1
                IN  [ret |-> FALSE, evs |-> e1 \o e2, store |-> s2]
        ELSE IF message_type = "error" THEN
            IF ~session_uuid.some THEN [ret |-> TRUE, evs |-> <<>>, store |-> st]
            ELSE
                LET id == session_uuid.v
                    field == IF parsed.some
                             THEN AsStr(Get(parsed.v, <<"error">>))
                             ELSE None
                    error_msg == IF field.some THEN field.v ELSE <<"Unknown error">>
                IN  [ret |-> FALSE,
                     evs |-> <<StoreEv("update_mix_error", id, error_msg, t, f["error"])>>,
                     store |-> IF f["error"]
                               THEN update_mix_error(st, id, error_msg, t)
                               ELSE st]
        ELSE [ret |-> FALSE, evs |-> <<>>, store |-> st]

\* a loop that ends on completion alone
ws_break_after_complete(message_type) == message_type = "complete"

\* whether the duplex loop ends after forwarding an envelope of this type
ws_break_after(message_type) == IsTerminal(message_type)

\* a bus branch that classifies and forwards a message whatever its payload
ws_on_message_undecoded(sid, msg, st, t, up, f) ==
    LET recv == Ev("recv", msg, TRUE)
        message_type == ws_message_type(msg.channel)
    IN  IF message_type = "unknown" THEN Step(<<recv>>, "streaming", "none", st)
        ELSE
            LET w == ws_persist(st, sid, message_type, msg.payload, t, f)
                send == SendEv("text", ws_message(message_type, msg.payload), up)
            IN  IF w.ret THEN Step(<<recv>> \o w.evs, "closed", "bad_session_id", w.store)
                ELSE IF ~up THEN Step(<<recv>> \o w.evs \o <<send>>, "closed", "send_failed", w.store)
                ELSE IF ws_break_after(message_type)
                THEN Step(<<recv>> \o w.evs \o <<send>>, "closed", "terminal", w.store)
                ELSE Step(<<recv>> \o w.evs \o <<send>>, "streaming", "none", w.store)

\* the bus branch of the duplex loop, for the message msg
ws_on_message(sid, msg, st, t, up, f) ==
    LET recv == Ev("recv", msg, TRUE)
        message_type == ws_message_type(msg.channel)
    IN  IF ~msg.utf8 THEN Step(<<recv>>, "streaming", "none", st)
        ELSE IF message_type = "unknown" THEN Step(<<recv>>, "streaming", "none", st)
        ELSE
            LET w == ws_persist(st, sid, message_type, msg.payload, t, f)
                send == SendEv("text", ws_message(message_type, msg.payload), up)
            IN  IF w.ret THEN Step(<<recv>> \o w.evs, "closed", "bad_session_id", w.store)
                ELSE IF ~up THEN Step(<<recv>> \o w.evs \o <<send>>, "closed", "send_failed", w.store)
                ELSE IF ws_break_after(message_type)
                THEN Step(<<recv>> \o w.evs \o <<send>>, "closed", "terminal", w.store)
                ELSE Step(<<recv>> \o w.evs \o <<send>>, "streaming", "none", w.store)

WsBusMessage(c) ==
    /\ conn[c].kind = "ws" /\ conn[c].pc = "streaming"
    /\ queue[c] # <<>>
    /\ \E f \in [{"cdn", "status", "error"} -> BOOLEAN] :
         Advance(c, ws_on_message(conn[c].sid, Head(queue[c]), store, now, alive[c], f),
                 Tail(queue[c]))
    /\ UNCHANGED <<alive, beat, now, npub, input, output, oauth_vars>>

\* the bus stream of a duplex connection ends: next() yields None
WsBusEnd(c) ==
    /\ conn[c].kind = "ws" /\ conn[c].pc = "streaming"
    /\ queue[c] = <<>>
    /\ Advance(c, Step(<<Ev("bus_end", NoArg, TRUE)>>, "closed", "bus_end", store), <<>>)
    /\ UNCHANGED <<alive, beat, now, npub, input, output, oauth_vars>>

\* a client branch that reports a receive error to the client
ws_on_frame_reporting(fr, st, up) ==
    LET got == Ev("frame", fr, TRUE)
    IN  IF fr.kind = "Ping"
        THEN Step(<<got, SendEv("pong", fr.data, up)>>, "streaming", "none", st)
        ELSE IF fr.kind = "Close" THEN Step(<<got>>, "closed", "client_close", st)
        ELSE IF fr.kind \in {"Err", "End"}
        THEN Step(<<got, SendEv("text", failure_text("WebSocket error: "), up)>>,
                  "closed", "client_error", st)
        ELSE Step(<<got>>, "streaming", "none", st)

\* a client branch that answers a ping with an empty pong
ws_on_frame_empty_pong(fr, st, up) ==
    LET got == Ev("frame", fr, TRUE)
    IN  IF fr.kind = "Ping"
        THEN Step(<<got, SendEv("pong", <<>>, up)>>, "streaming", "none", st)
        ELSE IF fr.kind \in {"Close", "Err", "End"}
        THEN Step(<<got>>, "closed", "client_close", st)
        ELSE Step(<<got>>, "streaming", "none", st)

\* the client branch of the duplex loop, for the frame fr
ws_on_frame(fr, st, up) ==
    LET got == Ev("frame", fr, TRUE)
    IN  IF fr.kind = "Ping"
        THEN Step(<<got, SendEv("pong", fr.data, up)>>, "streaming", "none", st)
        ELSE IF fr.kind = "Close" THEN Step(<<got>>, "closed", "client_close", st)
        ELSE IF fr.kind = "Err" THEN Step(<<got>>, "closed", "client_error", st)
        ELSE IF fr.kind = "End" THEN Step(<<got>>, "closed", "client_end", st)
        ELSE Step(<<got>>, "streaming", "none", st)

\* a broken transport delivers nothing but the receive error or the end
WsClientFrame(c) ==
    /\ conn[c].kind = "ws" /\ conn[c].pc = "streaming"
    /\ conn[c].nframes < MaxFrames
    /\ \E fr \in (IF alive[c] THEN Frames ELSE {g \in Frames : g.kind \in {"Err", "End"}}) :
         LET r == ws_on_frame(fr, store, alive[c])
         IN  /\ log' = [log EXCEPT ![c] = @ \o r.evs]
             /\ IF r.pc = "closed"
                THEN /\ conn' = [conn EXCEPT ![c].pc = "closed", ![c].why = r.why,
                                             ![c].unread = Len(queue[c]),
                                             ![c].nframes = @ + 1]
                     /\ queue' = [queue EXCEPT ![c] = <<>>]
                     /\ subs' = [subs EXCEPT ![c] = {}]
                ELSE /\ conn' = [conn EXCEPT ![c].nframes = @ + 1, ![c].traffic = now]
                     /\ UNCHANGED <<queue, subs>>
    /\ UNCHANGED <<store, alive, beat, now, npub, input, output, oauth_vars>>

\* a timer branch that also touches the session record
ws_on_tick_touching(st, up) ==
    Step(<<StoreEv("update_mix_status", "uuid-1", <<"generating">>, 0, TRUE),
           SendEv("ping", NoArg, up)>>,
         IF up THEN "streaming" ELSE "closed", IF up THEN "none" ELSE "ping_failed", st)

\* a timer branch that goes on when the ping cannot be written
ws_on_tick_keep(st, up) ==
    Step(<<SendEv("ping", NoArg, up)>>, "streaming", "none", st)

\* the timer branch of the duplex loop: a ping, and the loop ends when the
\* ping cannot be written
ws_on_tick(st, up) ==
    IF up THEN Step(<<SendEv("ping", NoArg, TRUE)>>, "streaming", "none", st)
    ELSE Step(<<SendEv("ping", NoArg, FALSE)>>, "closed", "ping_failed", st)

WsHeartbeat(c) ==
    /\ conn[c].kind = "ws" /\ conn[c].pc = "streaming"
    /\ now >= beat[c]
    /\ Advance(c, ws_on_tick(store, alive[c]), queue[c])
    /\ beat' = [beat EXCEPT ![c] = @ + heartbeat_secs]
    /\ UNCHANGED <<alive, now, npub, input, output, oauth_vars>>

\* the transport of a duplex connection breaks
TransportFail(c) ==
    /\ conn[c].kind = "ws" /\ conn[c].pc = "streaming"
    /\ alive[c]
    /\ alive' = [alive EXCEPT ![c] = FALSE]
    /\ UNCHANGED <<conn, subs, queue, log, store, beat, now, npub, input, output, oauth_vars>>

\* ----------------------------------------------- unidirectional adapter

\* sse_mix_handler up to the first subscribe: the bus connection
sse_open(openok, psok) ==
    IF ~openok THEN
        [evs |-> <<Ev("redis_open", NoArg, FALSE),
                   SendEv("event", failure_text("Redis connection failed: "), TRUE)>>,
         pc |-> "closed", why |-> "bus_failed"]
    ELSE IF ~psok THEN
        [evs |-> <<Ev("redis_open", NoArg, TRUE), Ev("get_async_pubsub", NoArg, FALSE),
                   SendEv("event", failure_text("Pubsub failed: "), TRUE)>>,
         pc |-> "closed", why |-> "bus_failed"]
    ELSE
        [evs |-> <<Ev("redis_open", NoArg, TRUE), Ev("get_async_pubsub", NoArg, TRUE)>>,
         pc |-> "sub_progress", why |-> "none"]

SseOpen(c, sid) ==
    /\ conn[c].pc = "idle"
    /\ \E openok, psok \in BOOLEAN :
         LET r == sse_open(openok, psok)
         IN  /\ conn' = [conn EXCEPT ![c].kind = "sse", ![c].sid = sid,
                                      ![c].pc = r.pc, ![c].why = r.why]
             /\ log' = [log EXCEPT ![c] = r.evs]
    /\ UNCHANGED <<subs, queue, store, alive, beat, now, npub, input, output, oauth_vars>>

\* the channel the unidirectional adapter subscribes at position pc, and
\* the position after it
sse_channel(pc, sid) ==
    IF pc = "sub_progress" THEN progress_channel(sid)
    ELSE IF pc = "sub_complete" THEN complete_channel(sid)
    ELSE error_channel(sid)

\* an order of calls that enters the loop without the confirmation
sse_after_unconfirmed(pc) ==
    IF pc = "sub_progress" THEN "sub_complete"
    ELSE IF pc = "sub_complete" THEN "sub_error"
    ELSE "streaming"

sse_after(pc) ==
    IF pc = "sub_progress" THEN "sub_complete"
    ELSE IF pc = "sub_complete" THEN "sub_error"
    ELSE "yield_connected"

\* one of the three sequential subscribe calls; its result is ignored
SseSubscribe(c) ==
    /\ conn[c].kind = "sse"
    /\ conn[c].pc \in {"sub_progress", "sub_complete", "sub_error"}
    /\ \E ok \in BOOLEAN :
         LET ch == sse_channel(conn[c].pc, conn[c].sid)
         IN  /\ subs' = [subs EXCEPT ![c] = IF ok THEN @ \cup {ch} ELSE @]
             /\ log' = [log EXCEPT ![c] = Append(@, Ev("subscribe", ch, ok))]
    /\ conn' = [conn EXCEPT ![c].pc = sse_after(conn[c].pc)]
    /\ UNCHANGED <<queue, store, alive, beat, now, npub, input, output, oauth_vars>>

\* the connection confirmation of the unidirectional adapter
SseConnected(c) ==
    /\ conn[c].kind = "sse" /\ conn[c].pc = "yield_connected"
    /\ log' = [log EXCEPT ![c] = Append(@, SendEv("event", connected_text(conn[c].sid), TRUE))]
    /\ conn' = [conn EXCEPT ![c].pc = "streaming"]
    /\ UNCHANGED <<subs, queue, store, alive, beat, now, npub, input, output, oauth_vars>>

\* whether the unidirectional loop ends after yielding this type
sse_break_after(message_type) == IsTerminal(message_type)

\* the body of the unidirectional adapter's loop, for the message msg
sse_on_message(msg, st) ==
    LET recv == Ev("recv", msg, TRUE)
        message_type == sse_message_type(msg.channel)
        send == SendEv("event", sse_message(message_type, msg.payload), TRUE)
    IN  IF ~msg.utf8 THEN Step(<<recv>>, "streaming", "none", st)
        ELSE IF sse_break_after(message_type)
        THEN Step(<<recv, send>>, "closed", "terminal", st)
        ELSE Step(<<recv, send>>, "streaming", "none", st)

SseBusMessage(c) ==
    /\ conn[c].kind = "sse" /\ conn[c].pc = "streaming"
    /\ queue[c] # <<>>
    /\ Advance(c, sse_on_message(Head(queue[c]), store), Tail(queue[c]))
    /\ UNCHANGED <<alive, beat, now, npub, input, output, oauth_vars>>

\* the bus stream of a unidirectional connection ends: the while loop ends
SseBusEnd(c) ==
    /\ conn[c].kind = "sse" /\ conn[c].pc = "streaming"
    /\ queue[c] = <<>>
    /\ Advance(c, Step(<<Ev("bus_end", NoArg, TRUE)>>, "closed", "bus_end", store), <<>>)
    /\ UNCHANGED <<alive, beat, now, npub, input, output, oauth_vars>>

\* the client of a unidirectional connection goes away: the response
\* stream is dropped where it is suspended
SseClientGone(c) ==
    /\ conn[c].kind = "sse"
    /\ conn[c].pc \notin {"idle", "closed"}
    /\ alive' = [alive EXCEPT ![c] = FALSE]
    /\ Advance(c, Step(<<>>, "closed", "client_gone", store), queue[c])
    /\ UNCHANGED <<beat, now, npub, input, output, oauth_vars>>

\* ------------------------------------------------------ the environment

\* a bus that keeps what was published for the connections to come
PublishRetained(m) ==
    /\ npub < MaxPub
    /\ \A c \in Conns : Len(queue[c]) < MaxBacklog
    /\ npub' = npub + 1
    /\ queue' = [c \in Conns |->
                   IF conn[c].pc # "closed" THEN Append(queue[c], m) ELSE queue[c]]
    /\ UNCHANGED <<conn, subs, log, store, alive, beat, now, input, output, oauth_vars>>

\* the bus delivers a published message to every subscription matching it
Publish(m) ==
    /\ npub < MaxPub
    /\ \A c \in Conns : Len(queue[c]) < MaxBacklog
    /\ npub' = npub + 1
    /\ queue' = [c \in Conns |->
                   IF \E pat \in subs[c] : Matches(pat, m.channel)
                   THEN Append(queue[c], m)
                   ELSE queue[c]]
    /\ UNCHANGED <<conn, subs, log, store, alive, beat, now, input, output, oauth_vars>>

\* time passes, one heartbeat period at a time
AdvanceTime ==
    /\ now + heartbeat_secs <= MaxIntervals * heartbeat_secs
    /\ now' = now + heartbeat_secs
    /\ UNCHANGED <<conn, subs, queue, log, store, alive, beat, npub, input, output, oauth_vars>>

\* one connection with all its event sources: the bus, the client, the
\* heartbeat timer and the clock
Next ==
    \/ \E c \in Single, sid \in ConnSids : WsOpen(c, sid)
    \/ \E c \in Single : WsBusMessage(c)
    \/ \E c \in Single : WsBusEnd(c)
    \/ \E c \in Single : WsClientFrame(c)
    \/ \E c \in Single : WsHeartbeat(c)
    \/ \E c \in Single : TransportFail(c)
    \/ \E c \in Single, sid \in ConnSids : SseOpen(c, sid)
    \/ \E c \in Single : SseSubscribe(c)
    \/ \E c \in Single : SseConnected(c)
    \/ \E c \in Single : SseBusMessage(c)
    \/ \E c \in Single : SseBusEnd(c)
    \/ \E c \in Single : SseClientGone(c)
    \/ \E m \in CoreMsgs : Publish(m)
    \/ AdvanceTime

Spec == Init /\ [][Next]_vars

\* the timer branch is taken once its tick is due: select! polls every
\* branch, and a tick that is due stays due until it is taken
SpecBeat == Spec /\ WF_vars(\E c \in Single : WsHeartbeat(c))

\* one connection and the bus alone, under every payload
NextWide ==
    \/ \E c \in Single, sid \in ConnSids : WsOpen(c, sid)
    \/ \E c \in Single : WsBusMessage(c)
    \/ \E c \in Single : WsBusEnd(c)
    \/ \E c \in Single : TransportFail(c)
    \/ \E c \in Single, sid \in ConnSids : SseOpen(c, sid)
    \/ \E c \in Single : SseSubscribe(c)
    \/ \E c \in Single : SseConnected(c)
    \/ \E c \in Single : SseBusMessage(c)
    \/ \E c \in Single : SseBusEnd(c)
    \/ \E c \in Single : SseClientGone(c)
    \/ \E m \in PubMsgs : Publish(m)

SpecWide == Init /\ [][NextWide]_vars

\* ------------------------------------- several connections of one session

\* what the job of session u1 may publish when it is looked at with several
\* connections: a progress report and both terminal messages
PairMsgs ==
    {Msg(progress_channel(U1), P1, TRUE),
     Msg(complete_channel(U1), DONE, TRUE),
     Msg(error_channel(U1), ERRP, TRUE)}

\* a published message with its place in the order the bus publishes in
Stamped(m) ==
    [channel |-> m.channel, payload |-> m.payload, utf8 |-> m.utf8, seq |-> npub + 1]

\* several duplex connections for session u1, opened at any time, the bus
\* and the clock
NextPair ==
    \/ \E c \in Conns : WsOpen(c, U1)
    \/ \E c \in Conns : WsBusMessage(c)
    \/ \E c \in Conns : WsBusEnd(c)
    \/ \E c \in Conns : TransportFail(c)
    \/ \E m \in PairMsgs : Publish(Stamped(m))
    \/ AdvanceTime

SpecPair == Init /\ [][NextPair]_vars

\* ------------------------------------------ both adapters on one session

\* a duplex and a unidirectional connection for session u1 and the bus,
\* with no client frame, no broken transport and no end of the bus stream
NextAdapters ==
    \/ WsOpen(1, U1)
    \/ WsBusMessage(1)
    \/ SseOpen(2, U1)
    \/ SseSubscribe(2)
    \/ SseConnected(2)
    \/ SseBusMessage(2)
    \/ \E m \in PairMsgs : Publish(m)

SpecAdapters == Init /\ [][NextAdapters]_vars

\* ------------------------------------ the terminal messages of a session

\* further payloads: a result location and an error field that are numbers,
\* and a JSON value that is no object
CDNNUM == <<LB, Q, "cdn_url", Q, COLON, "1", RB>>
ERRNUM == <<LB, Q, "error", Q, COLON, "1", RB>>
NUM == <<"5">>

\* the terminal messages of a session under every kind of payload
TerminalMsgs ==
    {Msg(complete_channel(U1), p, TRUE) : p \in {DONE, P1, CDNNUM, BAD}}
    \cup {Msg(error_channel(U1), p, TRUE) : p \in {ERRP, P1, ERRNUM, NUM, BAD}}

\* one duplex connection of a session that has a record (u1) or has none
\* (u2), the bus with terminal messages only, and the clock
NextTerminal ==
    \/ \E c \in Single, sid \in {U1, U2} : WsOpen(c, sid)
    \/ \E c \in Single : WsBusMessage(c)
    \/ \E c \in Single : WsBusEnd(c)
    \/ \E c \in Single : TransportFail(c)
    \/ \E m \in TerminalMsgs : Publish(m)
    \/ AdvanceTime

SpecTerminal == Init /\ [][NextTerminal]_vars

\* ------------------------------------------- the classifiers looked at alone

MaxIdLen == 2

\* session ids built from a plain word, the colon and the three suffix words
IdAlphabet == {"a", COLON, "complete", "error", "progress"}
IdTexts == UNION {[1..n -> IdAlphabet] : n \in 1..MaxIdLen}

\* the channels mix:<id>:<suffix>
ChannelsWith(suffixes) ==
    {<<"mix", COLON>> \o id \o <<COLON, suf>> : id \in IdTexts, suf \in suffixes}

\* the channels an adapter can be handed: the duplex adapter whatever
\* matches mix:*:*, here also with a suffix it does not know; the
\* unidirectional adapter the three channels it subscribed
ChannelInputs ==
    [adapter : {"ws"}, channel : ChannelsWith({"progress", "complete", "error", "status"})]
    \cup [adapter : {"sse"}, channel : ChannelsWith({"progress", "complete", "error"})]

InitClassifier ==
    /\ GatewayInit
    /\ store = ("uuid-1" :> NewRow)
    /\ input \in ChannelInputs
    /\ output = <<>>

\* the adapter classifies the channel
ClassifyChannel ==
    /\ output = <<>>
    /\ output' = <<IF input.adapter = "ws"
                   THEN ws_message_type(input.channel)
                   ELSE sse_message_type(input.channel)>>
    /\ UNCHANGED <<conn, subs, queue, log, store, alive, beat, now, npub, input, oauth_vars>>

SpecClassifier == InitClassifier /\ [][ClassifyChannel]_vars

\* ------------------------------------------ the terminal writes looked at alone

\* a session row as save_mix_data leaves it
SavedRow == [status |-> "completed", completed_at |-> Some(0),
             error_message |-> None, cdn_url |-> None]

\* a terminal message for a session: its kind and its payload
TerminalInputs ==
    [sid : {U1, U2, X}, kind : {"complete", "error"}, payload : {DONE, ERRP, BAD}]

AllOk == [k \in {"cdn", "status", "error"} |-> TRUE]

\* the store without the row of u1, with it as create_mix_session leaves
\* it, or as save_mix_data leaves it
InitSink ==
    /\ GatewayInit
    /\ store \in {<<>>, ("uuid-1" :> NewRow), ("uuid-1" :> SavedRow)}
    /\ input \in TerminalInputs
    /\ output = <<>>

\* the terminal writes of the duplex adapter for the message, every store
\* call succeeding
SinkWrite ==
    /\ Len(output) < 2
    /\ LET w == ws_persist(store, input.sid, input.kind, input.payload, now, AllOk)
       IN  /\ store' = w.store
           /\ output' = Append(output, w.store)
    /\ UNCHANGED <<conn, subs, queue, log, alive, beat, now, npub, input, oauth_vars>>

NextSink == SinkWrite \/ AdvanceTime

SpecSink == InitSink /\ [][NextSink]_vars

\* ------------------------------------------------- the OAuth state store

\* the states the authorization route generates
MaxTokens == 2

\* the callbacks that arrive
MaxValidations == 3

\* now - created_at < 300 in validate_state
state_ttl_secs == 300

\* now - *created_at < 600 in store_state
state_retention_secs == 600

\* the times, in seconds, the clock is read at
ClockPoints == {0, 299, 300, 599, 600}

\* generate_state: 16 random bytes and the time in nanoseconds make every
\* state a new one; the n-th state generated is n
generate_state(n) == n + 1

\* the states a callback may carry: those generated, and 0 for a state the
\* gateway never generated (a forged one, or the "" of a missing parameter)
CallbackStates == 0..MaxTokens

\* a validation that leaves the state in the store
validate_state_peeking(st, state, t) ==
    [store |-> st,
     created |-> IF state \in DOMAIN st THEN st[state] ELSE -1,
     ok |-> state \in DOMAIN st /\ t - st[state] < state_ttl_secs]

\* validate_state under the write lock: store.remove(state), and the state
\* is good when it was there and is younger than five minutes
validate_state(st, state, t) ==
    [store |-> [x \in DOMAIN st \ {state} |-> st[x]],
     created |-> IF state \in DOMAIN st THEN st[state] ELSE -1,
     ok |-> state \in DOMAIN st /\ t - st[state] < state_ttl_secs]

\* a store_state that never cleans up
store_state_unpruned(st, state, t) ==
    [x \in DOMAIN st \cup {state} |-> IF x = state THEN t ELSE st[x]]

\* store_state under the write lock: store.insert(state, now), then
\* store.retain(now - created_at < 600)
store_state(st, state, t) ==
    LET inserted == [x \in DOMAIN st \cup {state} |-> IF x = state THEN t ELSE st[x]]
        kept == {x \in DOMAIN inserted : t - inserted[x] < state_retention_secs}
    IN  [x \in kept |-> inserted[x]]

\* spotify_auth_route: a new state is generated and stored
SpotifyAuth ==
    /\ issued < MaxTokens
    /\ issued' = issued + 1
    /\ OAUTH_STATE_STORE' = store_state(OAUTH_STATE_STORE, generate_state(issued), now)
    /\ UNCHANGED <<conn, subs, queue, log, store, alive, beat, now, npub, input, output,
                   validated>>

\* spotify_callback_route up to the validation of its state parameter; the
\* write lock makes the body of validate_state one step, so callbacks that
\* run at the same time validate one after the other. No callback carries
\* a state that is yet to be generated.
SpotifyCallback(state) ==
    /\ Len(validated) < MaxValidations
    /\ state <= issued
    /\ LET r == validate_state(OAUTH_STATE_STORE, state, now)
       IN  /\ OAUTH_STATE_STORE' = r.store
           /\ validated' = Append(validated,
                  [state |-> state, ok |-> r.ok, at |-> now, created |-> r.created])
    /\ UNCHANGED <<conn, subs, queue, log, store, alive, beat, now, npub, input, output,
                   issued>>

\* the clock moves on to a later time
ClockAdvance ==
    /\ \E t \in ClockPoints : t > now /\ now' = t
    /\ UNCHANGED <<conn, subs, queue, log, store, alive, beat, npub, input, output,
                   oauth_vars>>

NextOAuth ==
    \/ SpotifyAuth
    \/ \E state \in CallbackStates : SpotifyCallback(state)
    \/ ClockAdvance

SpecOAuth == Init /\ [][NextOAuth]_vars

\* ------------------------------------------------- what a client observes

\* whether a log entry is a message written to the client (not a ping or
\* a pong)
IsEnvSend(ev) == ev.e = "send" /\ ev.a.frame \in {"text", "event"}

IsRecv(ev) == ev.e = "recv"

IsStore(ev) == ev.e = "store"

\* the texts the client of connection c has received, in order
Texts(c) ==
    LET sent == SelectSeq(log[c], LAMBDA ev : IsEnvSend(ev) /\ ev.ok)
    IN  [i \in 1..Len(sent) |-> sent[i].a.body]

\* the bus messages connection c has read, in order
Recvd(c) ==
    LET got == SelectSeq(log[c], IsRecv)
    IN  [i \in 1..Len(got) |-> got[i].a]

\* the three channels of a session
OwnChannels(sid) == {progress_channel(sid), complete_channel(sid), error_channel(sid)}

\* classify of the design: by suffix
Classify(ch) ==
    IF EndsWith(ch, <<COLON, "progress">>) THEN "progress"
    ELSE IF EndsWith(ch, <<COLON, "complete">>) THEN "complete"
    ELSE IF EndsWith(ch, <<COLON, "error">>) THEN "error"
    ELSE "unknown"

\* normalize of the design: the JSON value of the payload, or {raw: payload}
Normalize(payload) ==
    IF from_str(payload).some THEN from_str(payload).v
    ELSE JObj(<<"raw">> :> JStr(payload))

\* what a client reads in a text: its type and its data, if it is a JSON
\* object that has them
ClientView(text) ==
    LET p == from_str(text)
        ty == IF p.some THEN AsStr(Get(p.v, <<"type">>)) ELSE None
    IN  IF ~ty.some THEN [type |-> <<"?">>, data |-> None]
        ELSE IF ty.v = <<"connected">> THEN [type |-> ty.v, data |-> None]
        ELSE [type |-> ty.v, data |-> Get(p.v, <<"data">>)]

\* the canonical envelope of a bus message
Envelope(m) == [type |-> <<Classify(m.channel)>>, data |-> Some(Normalize(m.payload))]

\* whether a text written to a client is a complete or an error envelope
IsTerminalText(text) ==
    \/ Contains(text, <<Q, "type", Q, COLON, Q, "complete", Q>>)
    \/ Contains(text, <<Q, "type", Q, COLON, Q, "error", Q>>)

\* a sequence of bus messages up to and including its first terminal one
UpToTerminal(ms) ==
    IF \E i \in 1..Len(ms) : IsTerminal(Classify(ms[i].channel))
    THEN SubSeq(ms, 1, CHOOSE i \in 1..Len(ms) :
                          /\ IsTerminal(Classify(ms[i].channel))
                          /\ \A k \in 1..(i - 1) : ~IsTerminal(Classify(ms[k].channel)))
    ELSE ms

\* connection c got through its opening and sent the confirmation
Opened(c) ==
    \E i \in 1..Len(log[c]) :
        IsEnvSend(log[c][i]) /\ log[c][i].a.body = connected_text(conn[c].sid)

\* every write to the client of c went through
NoSendFailed(c) == \A i \in 1..Len(log[c]) : log[c][i].e = "send" => log[c][i].ok

\* -------------------------------------------------------- the properties

\* a text written to a client is the envelope of the bus message m: read
\* as JSON it is the canonical envelope of m; where it cannot be read as
\* JSON it still opens with the type of m's channel and holds m's payload
Carries(text, m) ==
    IF from_str(text).some THEN ClientView(text) = Envelope(m)
    ELSE /\ StartsWith(text, <<LB, Q, "type", Q, COLON, Q, Classify(m.channel), Q>>)
         /\ Contains(text, m.payload)

\* C1: when the bus delivers to a connection only decodable messages on the
\* session's own three channels and every write to the client goes through,
\* the client has received the connected envelope followed by one envelope
\* for each message read, in bus order, none duplicated or skipped, up to
\* and including the first terminal one, after which the connection is
\* closed.
C1_Ordering ==
    \A c \in Conns :
        (/\ Opened(c)
         /\ NoSendFailed(c)
         /\ \A i \in 1..Len(Recvd(c)) :
               Recvd(c)[i].utf8 /\ Recvd(c)[i].channel \in OwnChannels(conn[c].sid))
        => LET want == UpToTerminal(Recvd(c))
           IN  /\ Len(Texts(c)) = 1 + Len(want)
               /\ Texts(c)[1] = connected_text(conn[c].sid)
               /\ \A i \in 1..Len(want) : Carries(Texts(c)[i + 1], want[i])
               /\ (\E i \in 1..Len(want) : IsTerminal(Classify(want[i].channel)))
                    => conn[c].pc = "closed"

\* C2: once a complete or error envelope has been written to the client of
\* a connection, nothing more is written on that connection and the
\* connection is closed.
C2_TerminalEndsStream ==
    \A c \in Conns :
        \A i \in 1..Len(log[c]) :
            (IsEnvSend(log[c][i]) /\ IsTerminalText(log[c][i].a.body))
            => /\ conn[c].pc = "closed"
               /\ \A k \in (i + 1)..Len(log[c]) : log[c][k].e # "send"

\* a connection closed by a terminal envelope while further bus messages
\* were waiting in its subscription
C2_Witness ==
    \E c \in Conns :
        /\ conn[c].why = "terminal" /\ conn[c].unread > 0
        /\ IsTerminalText(log[c][Len(log[c])].a.body)

\* C4: a decodable message on a channel classified unknown produces no
\* envelope and no store call, and leaves the connection streaming.
C4_UnknownDiscarded ==
    \A c \in Conns :
        \A i \in 1..Len(log[c]) :
            (/\ IsRecv(log[c][i])
             /\ log[c][i].a.utf8
             /\ Classify(log[c][i].a.channel) = "unknown")
            => /\ i = Len(log[c]) => conn[c].pc = "streaming"
               /\ i < Len(log[c]) => ~IsStore(log[c][i + 1]) /\ ~IsEnvSend(log[c][i + 1])

\* a message on an unknown channel was read, and a later message was
\* forwarded on the same connection
C4_Witness ==
    \E c \in Conns :
        \E i, k \in 1..Len(log[c]) :
            /\ i < k
            /\ IsRecv(log[c][i]) /\ log[c][i].a.utf8
            /\ Classify(log[c][i].a.channel) = "unknown"
            /\ IsEnvSend(log[c][k]) /\ log[c][k].ok

\* C5: a message on a channel of another session causes no envelope to the
\* client of this session's connection, no store call by it, and does not
\* close it.
C5_SessionIsolation ==
    \A c \in Conns :
        \A i \in 1..Len(log[c]) :
            (/\ IsRecv(log[c][i])
             /\ log[c][i].a.channel \notin OwnChannels(conn[c].sid)
             /\ Classify(log[c][i].a.channel) # "unknown")
            => /\ i = Len(log[c]) => conn[c].pc = "streaming"
               /\ i < Len(log[c]) => ~IsStore(log[c][i + 1]) /\ ~IsEnvSend(log[c][i + 1])

\* C3: both adapters classify a channel by its suffix: :progress is
\* progress, :complete is complete, :error is error, anything else unknown,
\* whatever the session id inside the channel name is.
C3_ClassifyBySuffix ==
    output # <<>> =>
        /\ EndsWith(input.channel, <<COLON, "progress">>) => output[1] = "progress"
        /\ EndsWith(input.channel, <<COLON, "complete">>) => output[1] = "complete"
        /\ EndsWith(input.channel, <<COLON, "error">>) => output[1] = "error"
        /\ (/\ ~EndsWith(input.channel, <<COLON, "progress">>)
            /\ ~EndsWith(input.channel, <<COLON, "complete">>)
            /\ ~EndsWith(input.channel, <<COLON, "error">>)) => output[1] = "unknown"

\* the entries of log[c] from i + 1 to k - 1 are store calls: k belongs to
\* the handling of the message read at i
SameHandling(c, i, k) ==
    /\ i < k /\ k <= Len(log[c])
    /\ \A j \in (i + 1)..(k - 1) : IsStore(log[c][j])

\* C6: the envelope forwarded for a decodable message carries as data the
\* JSON value of the payload, or {raw: payload} when the payload is not
\* JSON; a payload that is not JSON on a progress channel is forwarded and
\* leaves the connection streaming.
C6_NormalizeTotal ==
    \A c \in Conns :
        \A i \in 1..Len(log[c]) :
            (/\ IsRecv(log[c][i]) /\ log[c][i].a.utf8
             /\ Classify(log[c][i].a.channel) # "unknown")
            => LET m == log[c][i].a
               IN  /\ \A k \in (i + 1)..Len(log[c]) :
                          (SameHandling(c, i, k) /\ IsEnvSend(log[c][k]))
                          => ClientView(log[c][k].a.body).data = Some(Normalize(m.payload))
                   /\ (~from_str(m.payload).some /\ Classify(m.channel) = "progress")
                      => /\ i < Len(log[c]) /\ IsEnvSend(log[c][i + 1])
                         /\ (i + 1 = Len(log[c]) /\ log[c][i + 1].ok)
                              => conn[c].pc = "streaming"

\* C7: every text written to a client is one JSON object with a type among
\* connected, progress, complete, error, and a data field.
C7_WireContract ==
    \A c \in Conns :
        \A i \in 1..Len(log[c]) :
            IsEnvSend(log[c][i])
            => LET p == from_str(log[c][i].a.body)
               IN  /\ p.some /\ p.v.j = "obj"
                   /\ AsStr(Get(p.v, <<"type">>)).some
                   /\ AsStr(Get(p.v, <<"type">>)).v
                        \in {<<"connected">>, <<"progress">>, <<"complete">>, <<"error">>}
                   /\ Get(p.v, <<"data">>).some

\* C8: before a complete or error envelope is written to a client, the
\* handling of that message has called the store: update_mix_status with
\* completed for complete, update_mix_error for error.
C8_WriteBeforeForward ==
    \A c \in Conns :
        \A k \in 1..Len(log[c]) :
            (IsEnvSend(log[c][k]) /\ IsTerminalText(log[c][k].a.body))
            => \E i \in 1..(k - 1) :
                   /\ IsRecv(log[c][i]) /\ SameHandling(c, i, k)
                   /\ \E j \in (i + 1)..(k - 1) :
                          IF Contains(log[c][k].a.body, <<Q, "type", Q, COLON, Q, "complete", Q>>)
                          THEN /\ log[c][j].a.op = "update_mix_status"
                               /\ log[c][j].a.arg = <<"completed">>
                          ELSE log[c][j].a.op = "update_mix_error"

\* what the client is sent, and where the connection is, after a step
Visible(r) ==
    [sends |-> SelectSeq(r.evs, LAMBDA ev : ev.e = "send"), pc |-> r.pc, why |-> r.why]

\* C9: a failing store never shows at the client: the connection is not
\* closed for it, the failed call is not retried, the envelope of the
\* message is still written with the content it has when the store
\* succeeds, and what a handler sends does not depend on which store calls
\* succeed.
C9_StoreFailureIsolated ==
    \A c \in Conns :
        /\ \A i \in 1..Len(log[c]) :
               (log[c][i].e \in {"store", "db_new"} /\ ~log[c][i].ok)
               => /\ conn[c].why # "db_failed"
                  /\ IsStore(log[c][i])
                     => /\ \E k \in (i + 1)..Len(log[c]) :
                               /\ IsEnvSend(log[c][k])
                               /\ \A j \in (i + 1)..(k - 1) :
                                      IsStore(log[c][j]) /\ log[c][j].a.op # log[c][i].a.op
                               /\ \E r \in 1..(i - 1) :
                                      /\ IsRecv(log[c][r]) /\ SameHandling(c, r, k)
                                      /\ ClientView(log[c][k].a.body) = Envelope(log[c][r].a)
        /\ (conn[c].kind = "ws" /\ conn[c].pc = "streaming" /\ queue[c] # <<>>)
           => \A f, g \in [{"cdn", "status", "error"} -> BOOLEAN] :
                 Visible(ws_on_message(conn[c].sid, Head(queue[c]), store, now, alive[c], f))
                 = Visible(ws_on_message(conn[c].sid, Head(queue[c]), store, now, alive[c], g))

\* C10: the terminal writes for one message, made a second time, leave the
\* store as the first time left it.
C10_WritesIdempotent ==
    Len(output) = 2 => output[1] = output[2]

\* C11: the status of a session record changes only from generating to
\* completed or from generating to error; once completed or error it keeps
\* its value, whatever the connections and the bus do.
C11_StatusMonotonic ==
    [][\A id \in DOMAIN store :
          store'[id].status # store[id].status
          => /\ store[id].status = "generating"
             /\ store'[id].status \in {"completed", "error"}]_vars

\* the terminal messages some connection has read from the bus
TerminalsRead ==
    LET read == UNION {{log[c][i].a : i \in {k \in 1..Len(log[c]) : IsRecv(log[c][k])}} : c \in Conns}
    IN  {m \in read : m.utf8 /\ IsTerminal(Classify(m.channel))}

\* C12: with any number of terminal messages published for a session, only
\* the first of them causes store calls, and every terminal message a
\* connection reads is forwarded to its client.
C12_FirstTerminalWrites ==
    \A c \in Conns :
        \A i \in 1..Len(log[c]) :
            (IsRecv(log[c][i]) /\ log[c][i].a.utf8 /\ IsTerminal(Classify(log[c][i].a.channel)))
            => /\ (i < Len(log[c]) /\ IsStore(log[c][i + 1]))
                  => \A m \in TerminalsRead : log[c][i].a.seq <= m.seq
               /\ \E k \in (i + 1)..Len(log[c]) : SameHandling(c, i, k) /\ IsEnvSend(log[c][k])

\* connection c could not open its bus connection
BusConnectFailed(c) ==
    \E i \in 1..Len(log[c]) :
        log[c][i].e \in {"redis_open", "get_async_pubsub"} /\ ~log[c][i].ok

\* how many entries of log[c] are of kind e
Count(c, e) == Cardinality({i \in 1..Len(log[c]) : log[c][i].e = e})

\* C13: a connection that could not open its bus connection has written to
\* its client exactly one text, an envelope of type error, and no connected
\* envelope; it is closed, it opened the bus once and subscribed to nothing.
C13_BusConnectFailure ==
    \A c \in Conns :
        (BusConnectFailed(c) /\ NoSendFailed(c))
        => /\ conn[c].pc = "closed"
           /\ Len(Texts(c)) = 1
           /\ ClientView(Texts(c)[1]).type = <<"error">>
           /\ Count(c, "redis_open") = 1
           /\ Count(c, "get_async_pubsub") <= 1
           /\ Count(c, "psubscribe") + Count(c, "subscribe") + Count(c, "recv") = 0

\* a subscribe call of connection c on the bus failed
SubscribeFailed(c) ==
    \E i \in 1..Len(log[c]) :
        log[c][i].e \in {"psubscribe", "subscribe"} /\ ~log[c][i].ok

\* C14: a connection one of whose subscribe calls failed never sends the
\* connected envelope and never is in its streaming loop; once it is closed
\* its client has received a single envelope, of type error.
C14_SubscribeFailure ==
    \A c \in Conns :
        SubscribeFailed(c)
        => /\ ~\E i \in 1..Len(log[c]) :
                  IsEnvSend(log[c][i]) /\ log[c][i].a.body = connected_text(conn[c].sid)
           /\ conn[c].pc # "streaming"
           /\ (conn[c].pc = "closed" /\ NoSendFailed(c) /\ conn[c].why # "client_gone")
              => /\ Len(Texts(c)) = 1
                 /\ ClientView(Texts(c)[1]).type = <<"error">>

\* whether a log entry is a ping written, or tried, by the gateway
IsPing(ev) == ev.e = "send" /\ ev.a.frame = "ping"

\* C15: a duplex connection whose heartbeat tick is due sends a ping unless
\* it closes first, so a connection idle for the heartbeat interval sends
\* one; a ping that cannot be written is the last thing the connection does
\* and closes it.
C15_Heartbeat ==
    /\ [](\A c \in Conns :
            \A i \in 1..Len(log[c]) :
                (IsPing(log[c][i]) /\ ~log[c][i].ok)
                => i = Len(log[c]) /\ conn[c].pc = "closed")
    /\ \A c \in Conns :
          (conn[c].kind = "ws" /\ conn[c].pc = "streaming" /\ now >= beat[c])
          ~> (conn[c].pc = "closed"
              \/ (now < beat[c] /\ \E i \in 1..Len(log[c]) : IsPing(log[c][i])))

\* a connection that was idle from its opening for the heartbeat interval
\* has sent a ping and goes on
C15_Witness ==
    \E c \in Conns :
        /\ conn[c].pc = "streaming" /\ now = heartbeat_secs
        /\ Len(log[c]) > 1
        /\ IsPing(log[c][Len(log[c])]) /\ log[c][Len(log[c])].ok
        /\ log[c][Len(log[c]) - 1] = SendEv("text", connected_text(conn[c].sid), TRUE)

\* whether a log entry is a frame of this kind read from the client
IsFrame(ev, kind) == ev.e = "frame" /\ ev.a.kind = kind

\* C16: a ping read from the client is answered at once with a pong of the
\* same payload and leaves the connection in its loop; a close frame read
\* from the client closes the connection and nothing is written after it.
C16_ClientFrames ==
    \A c \in Conns :
        \A i \in 1..Len(log[c]) :
            /\ IsFrame(log[c][i], "Ping")
               => /\ i < Len(log[c])
                  /\ log[c][i + 1].e = "send"
                  /\ log[c][i + 1].a = [frame |-> "pong", body |-> log[c][i].a.data]
                  /\ i + 1 = Len(log[c]) => conn[c].pc = "streaming"
            /\ IsFrame(log[c][i], "Close")
               => i = Len(log[c]) /\ conn[c].pc = "closed"

\* a ping with a payload was answered and a bus message forwarded afterwards
C16_Witness ==
    \E c \in Conns :
        \E i \in 1..Len(log[c]) :
            /\ IsFrame(log[c][i], "Ping") /\ log[c][i].a.data = <<"a">>
            /\ i + 1 < Len(log[c])
            /\ log[c][i + 1].ok
            /\ IsEnvSend(log[c][Len(log[c])])

\* the places in log[c] where the connected envelope is written
ConnectedSends(c) ==
    {i \in 1..Len(log[c]) :
        IsEnvSend(log[c][i]) /\ log[c][i].a.body = connected_text(conn[c].sid)}

\* whether a text is an envelope of a bus message
IsBusEnvelope(text) ==
    \E ty \in {"progress", "complete", "error"} :
        Contains(text, <<Q, "type", Q, COLON, Q, ty, Q>>)

\* C17: a connection writes the connected envelope, carrying its session
\* id, at most once, and exactly once when it is in its streaming loop; no
\* envelope of a bus message is written before it, and it is the first
\* text the client receives.
C17_ConnectedFirst ==
    \A c \in Conns :
        /\ Cardinality(ConnectedSends(c)) <= 1
        /\ conn[c].pc = "streaming" => Cardinality(ConnectedSends(c)) = 1
        /\ \A i \in 1..Len(log[c]) :
               (IsEnvSend(log[c][i]) /\ IsBusEnvelope(log[c][i].a.body))
               => \E k \in ConnectedSends(c) : k < i
        /\ (ConnectedSends(c) # {} /\ Texts(c) # <<>>)
           => Texts(c)[1] = connected_text(conn[c].sid)

\* a client that has received the connected envelope and then the envelope
\* of a bus message
C17_Witness ==
    \E c \in Conns :
        /\ Len(Texts(c)) >= 2
        /\ Texts(c)[1] = connected_text(conn[c].sid)
        /\ IsBusEnvelope(Texts(c)[2])

\* C18: once completed_at of a session record has a value, no step of the
\* gateway gives it another one.
C18_CompletedAtSetOnce ==
    [][\A id \in DOMAIN store :
          store[id].completed_at.some
          => store'[id].completed_at = store[id].completed_at]_vars

\* the place in log[c] of the store call op made in the handling of the
\* message read at i, or 0 when the handling made none
StoreCall(c, i, op) ==
    LET at == {j \in (i + 1)..Len(log[c]) :
                  /\ \A k \in (i + 1)..j : IsStore(log[c][k])
                  /\ log[c][j].a.op = op}
    IN  IF at = {} THEN 0 ELSE CHOOSE j \in at : \A k \in at : j <= k

\* the result location a complete payload carries, if any
ResultLocation(payload) ==
    IF from_str(payload).some THEN AsStr(Get(from_str(payload).v, <<"cdn_url">>)) ELSE None

\* C19: in the handling of a complete message by a duplex connection of a
\* session with a UUID, update_mix_cdn_url is called with the result
\* location when the payload carries one, and update_mix_status with
\* completed is called in every case: with or without a result location,
\* whether or not the first call succeeded, whether or not the payload is
\* JSON; when it succeeds the record is completed and stamped with the time
\* of the call.
C19_CompletionWrite ==
    \A c \in Conns :
        \A i \in 1..Len(log[c]) :
            (/\ conn[c].kind = "ws" /\ parse_str(conn[c].sid).some
             /\ IsRecv(log[c][i]) /\ log[c][i].a.utf8
             /\ Classify(log[c][i].a.channel) = "complete")
            => LET url == ResultLocation(log[c][i].a.payload)
                   id == parse_str(conn[c].sid).v
                   u == StoreCall(c, i, "update_mix_cdn_url")
                   w == StoreCall(c, i, "update_mix_status")
               IN  /\ url.some => u # 0 /\ log[c][u].a.arg = url.v /\ log[c][u].a.id = id
                   /\ ~url.some => u = 0
                   /\ w # 0
                   /\ w # 0 => /\ log[c][w].a.arg = <<"completed">> /\ log[c][w].a.id = id
                               /\ (log[c][w].ok /\ id \in DOMAIN store)
                                  => /\ store[id].status = "completed"
                                     /\ store[id].completed_at = Some(log[c][w].a.at)
                               /\ (url.some /\ log[c][u].ok /\ id \in DOMAIN store)
                                  => store[id].cdn_url = Some(url.v)

\* the message to store for an error payload: its error field when the
\* payload is a JSON object with that field as a string
ExpectedError(payload) ==
    LET field == IF from_str(payload).some
                 THEN AsStr(Get(from_str(payload).v, <<"error">>))
                 ELSE None
    IN  IF field.some THEN field.v ELSE <<"Unknown error">>

\* C20: in the handling of an error message by a duplex connection of a
\* session with a UUID, exactly one store call is made, update_mix_error,
\* with the payload's error field when the payload is a JSON object with
\* that field as a string and with "Unknown error" otherwise; when it
\* succeeds the record has status error, that message, and the time of the
\* call as completion time.
C20_ErrorWrite ==
    \A c \in Conns :
        \A i \in 1..Len(log[c]) :
            (/\ conn[c].kind = "ws" /\ parse_str(conn[c].sid).some
             /\ IsRecv(log[c][i]) /\ log[c][i].a.utf8
             /\ Classify(log[c][i].a.channel) = "error")
            => LET id == parse_str(conn[c].sid).v
               IN  /\ StoreCall(c, i, "update_mix_error") = i + 1
                   /\ log[c][i + 1].a.arg = ExpectedError(log[c][i].a.payload)
                   /\ log[c][i + 1].a.id = id
                   /\ i + 2 <= Len(log[c]) /\ ~IsStore(log[c][i + 2])
                   /\ (log[c][i + 1].ok /\ id \in DOMAIN store)
                      => /\ store[id].status = "error"
                         /\ store[id].error_message = Some(ExpectedError(log[c][i].a.payload))
                         /\ store[id].completed_at = Some(log[c][i + 1].a.at)

\* an error message whose error field is a number was handled after the
\* clock moved, and the record says Unknown error
C20_Witness ==
    \E c \in Conns :
        \E i \in 1..Len(log[c]) :
            /\ IsRecv(log[c][i]) /\ log[c][i].a.payload = ERRNUM
            /\ Classify(log[c][i].a.channel) = "error"
            /\ store["uuid-1"] = [status |-> "error", completed_at |-> Some(heartbeat_secs),
                                  error_message |-> Some(<<"Unknown error">>),
                                  cdn_url |-> None]

\* C21: a session record with status completed carries no error message
\* and a record with status error carries no result location; the records
\* start without either, so whatever they carry the gateway wrote.
C21_OutcomeFields ==
    \A id \in DOMAIN store :
        /\ store[id].status = "completed" => store[id].error_message = None
        /\ store[id].status = "error" => store[id].cdn_url = None

\* C22: every store call of the gateway is one of update_mix_cdn_url,
\* update_mix_status and update_mix_error and is made in the handling of a
\* message classified complete or error, so none is made for a progress
\* message, an unknown channel, a client frame or a heartbeat tick; and the
\* store never gains a record.
C22_StoreFrame ==
    /\ DOMAIN store = {"uuid-1"}
    /\ \A c \in Conns :
          \A j \in 1..Len(log[c]) :
              IsStore(log[c][j])
              => /\ log[c][j].a.op \in {"update_mix_cdn_url", "update_mix_status", "update_mix_error"}
                 /\ \E i \in 1..(j - 1) :
                        /\ IsRecv(log[c][i]) /\ SameHandling(c, i, j)
                        /\ IsTerminal(Classify(log[c][i].a.channel))

\* a connection that forwarded a progress message, read a client frame and
\* then made a store call for a terminal message
C22_Witness ==
    \E c \in Conns :
        \E i, k, j \in 1..Len(log[c]) :
            /\ i < k /\ k < j
            /\ IsRecv(log[c][i]) /\ Classify(log[c][i].a.channel) = "progress"
            /\ log[c][k].e = "frame"
            /\ IsStore(log[c][j])

\* the last entry of the log of c
LastEv(l) == l[Len(l)]

\* what the log of a connection that has just left its loop ends with when
\* it left for one of the four reasons: a forwarded terminal envelope, a
\* close, receive error or end of the client's frames, a failed write, the
\* end of the bus stream
LeftForCause(l) ==
    /\ l # <<>>
    /\ \/ IsEnvSend(LastEv(l)) /\ LastEv(l).ok /\ IsTerminalText(LastEv(l).a.body)
       \/ LastEv(l).e = "send" /\ ~LastEv(l).ok
       \/ LastEv(l).e = "frame" /\ LastEv(l).a.kind \in {"Close", "Err", "End"}
       \/ LastEv(l).e = "bus_end"

\* C23: a connection leaves the streaming state only by forwarding a
\* terminal envelope, by the client closing, by a failed write or by the end
\* of the bus stream (a unidirectional client going away drops the stream);
\* no message on an unknown channel, malformed payload, store failure,
\* session id, pong or text frame closes it.
C23_OnlyFourExits ==
    [][\A c \in Conns :
          (conn[c].pc = "streaming" /\ conn'[c].pc = "closed")
          => \/ LeftForCause(log'[c])
             \/ conn[c].kind = "sse" /\ log'[c] = log[c]]_vars

\* the same for the connections whose session id is a UUID
C23_UuidSessions ==
    [][\A c \in Conns :
          (conn[c].pc = "streaming" /\ conn'[c].pc = "closed" /\ parse_str(conn[c].sid).some)
          => \/ LeftForCause(log'[c])
             \/ conn[c].kind = "sse" /\ log'[c] = log[c]]_vars

\* C24: a failed write to the client of a duplex connection, whichever
\* frame it carried, is the last thing the connection does: nothing follows
\* it in the log and the connection is closed.
C24_SendFailureFatal ==
    \A c \in Conns :
        conn[c].kind = "ws"
        => \A i \in 1..Len(log[c]) :
               (log[c][i].e = "send" /\ ~log[c][i].ok)
               => i = Len(log[c]) /\ conn[c].pc = "closed"

\* the same for every write but the connection confirmation
C24_AfterConfirmation ==
    \A c \in Conns :
        conn[c].kind = "ws"
        => \A i \in 1..Len(log[c]) :
               (/\ log[c][i].e = "send" /\ ~log[c][i].ok
                /\ log[c][i].a.body # connected_text(conn[c].sid))
               => i = Len(log[c]) /\ conn[c].pc = "closed"

\* C25: the heartbeat ping that ends an interval of heartbeat_secs is not
\* sent when the connection forwarded a bus message or read a client frame
\* during that interval.
C25_ProbeOnlyWhenIdle ==
    [][\A c \in Conns :
          (Len(log'[c]) = Len(log[c]) + 1 /\ IsPing(LastEv(log'[c])))
          => ~(/\ beat[c] - heartbeat_secs <= conn[c].traffic
               /\ conn[c].traffic < beat[c])]_vars

\* connection c has made the first of its subscribe calls, none of its
\* subscribe calls failed, and it has not closed
BegunSubscribing(c) ==
    /\ conn[c].pc \in {"sub_complete", "sub_error", "yield_connected", "streaming"}
    /\ ~SubscribeFailed(c)

\* C26: from its first subscribe call on, a connection is handed every
\* message published on one of the three channels of its session, a message
\* published between two of its subscribe calls included.
C26_NoSubscribeRace ==
    [][\A c \in Conns : \A m \in CoreMsgs :
          (/\ Publish(m)
           /\ BegunSubscribing(c)
           /\ m.channel \in OwnChannels(conn[c].sid))
          => queue'[c] = Append(queue[c], m)]_vars

\* the same for the duplex adapter, which subscribes with one call
C26_PatternSubscription ==
    [][\A c \in Conns : \A m \in CoreMsgs :
          (/\ Publish(m)
           /\ BegunSubscribing(c) /\ conn[c].kind = "ws"
           /\ m.channel \in OwnChannels(conn[c].sid))
          => queue'[c] = Append(queue[c], m)]_vars

\* C27: a closed connection, whatever closed it, holds no bus subscription
\* and no undelivered message, and from then on nothing happens on it: no
\* heartbeat tick, no message handed to it, no write, no store call.
C27_TeardownReleases ==
    /\ [](\A c \in Conns :
            conn[c].pc = "closed" => subs[c] = {} /\ queue[c] = <<>>)
    /\ [][\A c \in Conns :
            conn[c].pc = "closed"
            => /\ conn'[c] = conn[c] /\ log'[c] = log[c]
               /\ subs'[c] = subs[c] /\ queue'[c] = queue[c]
               /\ beat'[c] = beat[c]]_vars

\* a connection closed with messages it had not read, its heartbeat tick
\* due, and a further message published since
C27_Witness ==
    \E c \in Conns :
        /\ conn[c].pc = "closed" /\ conn[c].unread > 0
        /\ conn[c].kind = "ws" /\ now >= beat[c]
        /\ npub > Len(Recvd(c)) + conn[c].unread

\* the texts of the bus envelopes connection c wrote or tried to write
Forwarded(c) ==
    LET sent == SelectSeq(log[c], LAMBDA ev : IsEnvSend(ev) /\ IsBusEnvelope(ev.a.body))
    IN  [i \in 1..Len(sent) |-> sent[i].a.body]

\* the messages the bus handed to c: those it read and those waiting
Handed(c) == Recvd(c) \o queue[c]

\* whether the pattern subscription of c was made
Subscribed(c) ==
    \E i \in 1..Len(log[c]) : log[c][i].e = "psubscribe" /\ log[c][i].ok

\* C28: with several connections of one session, what each receives is
\* decided by the bus and its own pace alone: the messages handed to a
\* subscribed connection are consecutive in publication order, reach up to
\* the latest publication while it is streaming, and each one it read was
\* written to its client as that message's envelope, in order, whether the
\* other connection is slow, broken or closed.
C28_ConnectionIndependence ==
    \A c \in Conns :
        Subscribed(c)
        => /\ \A i \in 1..(Len(Handed(c)) - 1) :
                  Handed(c)[i + 1].seq = Handed(c)[i].seq + 1
           /\ (conn[c].pc = "streaming" /\ Handed(c) # <<>>)
              => Handed(c)[Len(Handed(c))].seq = npub
           /\ Len(Forwarded(c)) = Len(Recvd(c))
           /\ \A i \in 1..Len(Recvd(c)) : Carries(Forwarded(c)[i], Recvd(c)[i])

\* one connection closed, or still holding everything it was handed, while
\* the other has been handed more since and has forwarded two messages
C28_Witness ==
    \E c, d \in Conns :
        /\ c # d /\ Subscribed(c) /\ Subscribed(d)
        /\ \/ conn[c].pc = "streaming" /\ Recvd(c) = <<>> /\ Len(queue[c]) = MaxBacklog
           \/ conn[c].why = "send_failed"
        /\ conn[d].pc = "streaming" /\ Len(Forwarded(d)) = 2

\* what the client of c has read, text by text
EnvelopesSeen(c) == [i \in 1..Len(Texts(c)) |-> ClientView(Texts(c)[i])]

\* the store calls connection c made, in order
StoreWrites(c) ==
    LET calls == SelectSeq(log[c], IsStore)
    IN  [i \in 1..Len(calls) |-> [op |-> calls[i].a.op, id |-> calls[i].a.id, arg |-> calls[i].a.arg]]

\* c is a duplex and d a unidirectional connection of the same session,
\* both confirmed, with every write gone through, which have read the same
\* bus messages
SameRun(c, d) ==
    /\ conn[c].kind = "ws" /\ conn[d].kind = "sse" /\ conn[c].sid = conn[d].sid
    /\ Opened(c) /\ Opened(d) /\ NoSendFailed(c) /\ NoSendFailed(d)
    /\ Recvd(c) = Recvd(d)

\* C29: a duplex and a unidirectional connection of one session that read
\* the same bus messages have delivered the same envelopes, in the same
\* order, and have made the same store calls.
C29_AdapterEquivalence ==
    \A c, d \in Conns :
        SameRun(c, d)
        => /\ EnvelopesSeen(c) = EnvelopesSeen(d)
           /\ StoreWrites(c) = StoreWrites(d)

\* the envelopes alone, for the well-formed messages of the job
C29_SameEnvelopes ==
    \A c, d \in Conns : SameRun(c, d) => EnvelopesSeen(c) = EnvelopesSeen(d)

TerminalRead(c) ==
    \E i \in 1..Len(log[c]) :
        /\ IsRecv(log[c][i]) /\ log[c][i].a.utf8
        /\ log[c][i].a.channel \in {complete_channel(conn[c].sid), error_channel(conn[c].sid)}

\* the client of c has read a terminal envelope
TerminalDelivered(c) ==
    \E i \in 1..Len(log[c]) :
        IsEnvSend(log[c][i]) /\ log[c][i].ok /\ IsTerminalText(log[c][i].a.body)

\* C31: a connection that has read a decodable terminal message of its
\* session, published after it subscribed, and whose transport has not
\* failed, is closed and its client has read a terminal envelope: the
\* handling of the message is one step, so the terminal envelope is there as
\* soon as the message is read.
C31_EventualTermination ==
    \A c \in Conns :
        (TerminalRead(c) /\ alive[c] /\ NoSendFailed(c))
        => conn[c].pc = "closed" /\ TerminalDelivered(c)

\* the same for the connections whose session id is a UUID
C31_UuidSessions ==
    \A c \in Conns :
        (TerminalRead(c) /\ alive[c] /\ NoSendFailed(c) /\ parse_str(conn[c].sid).some)
        => conn[c].pc = "closed" /\ TerminalDelivered(c)

\* C32: a receive error on the duplex socket, or the end of the client's
\* frames without a close frame, ends the loop as a close frame does: the
\* connection is closed and nothing follows in its log, neither a write to
\* the client nor a store call.
C32_ReceiveErrorCloses ==
    \A c \in Conns :
        \A i \in 1..Len(log[c]) :
            (IsFrame(log[c][i], "Err") \/ IsFrame(log[c][i], "End"))
            => i = Len(log[c]) /\ conn[c].pc = "closed"

\* a connection that forwarded a message and then met a receive error
C32_Witness ==
    \E c \in Conns :
        /\ Len(log[c]) > 0 /\ IsFrame(LastEv(log[c]), "Err")
        /\ \E k \in 1..Len(log[c]) : IsEnvSend(log[c][k]) /\ IsBusEnvelope(log[c][k].a.body)

\* C33: on a duplex connection whose session id is no UUID a progress
\* message is forwarded; an error message, or a complete message with a JSON
\* payload, ends the handler at once, with no store call and nothing
\* written; a complete message whose payload is not JSON is forwarded as
\* {raw: payload}; and the connection makes no store call at all.
C33_BadSessionId ==
    \A c \in Conns :
        (conn[c].kind = "ws" /\ ~parse_str(conn[c].sid).some)
        => /\ \A i \in 1..Len(log[c]) : ~IsStore(log[c][i])
           /\ \A i \in 1..Len(log[c]) :
                  (IsRecv(log[c][i]) /\ log[c][i].a.utf8)
                  => LET m == log[c][i].a
                         ty == Classify(m.channel)
                     IN  /\ (ty = "error" \/ (ty = "complete" /\ from_str(m.payload).some))
                            => /\ i = Len(log[c]) /\ conn[c].pc = "closed"
                         /\ (ty = "progress" \/ (ty = "complete" /\ ~from_str(m.payload).some))
                            => /\ i < Len(log[c]) /\ IsEnvSend(log[c][i + 1])
                               /\ ClientView(log[c][i + 1].a.body)
                                    = [type |-> <<ty>>, data |-> Some(Normalize(m.payload))]

\* a connection with a session id that is no UUID forwarded a progress
\* message and then returned on a terminal one
C33_Witness ==
    \E c \in Conns :
        /\ conn[c].kind = "ws" /\ ~parse_str(conn[c].sid).some
        /\ conn[c].pc = "closed" /\ Len(Forwarded(c)) >= 1
        /\ IsRecv(LastEv(log[c]))

\* C34: a bus message whose payload is no text is skipped by either
\* adapter: no store call and no write to the client belongs to it, and
\* after it the connection is still in its loop, also when it came on the
\* complete or error channel of the session.
C34_UndecodableSkipped ==
    \A c \in Conns :
        \A i \in 1..Len(log[c]) :
            (IsRecv(log[c][i]) /\ ~log[c][i].a.utf8)
            => /\ i < Len(log[c])
                  => ~IsStore(log[c][i + 1]) /\ log[c][i + 1].e # "send"
               /\ i = Len(log[c])
                  => conn[c].pc = "streaming" \/ conn[c].why = "client_gone"

\* a connection skipped a message without text on a complete channel and
\* forwarded a later message
C34_Witness ==
    \E c \in Conns :
        \E i \in 1..Len(log[c]) :
            /\ IsRecv(log[c][i]) /\ ~log[c][i].a.utf8
            /\ Classify(log[c][i].a.channel) = "complete"
            /\ i + 1 < Len(log[c])
            /\ IsRecv(log[c][i + 1]) /\ IsEnvSend(LastEv(log[c]))

\* whether the store connection of c could not be opened
StoreConnectFailed(c) ==
    \E i \in 1..Len(log[c]) : log[c][i].e = "db_new" /\ ~log[c][i].ok

\* C35: a duplex connection opens its store connection before anything
\* else; when that fails it writes one failure message and is closed,
\* having never contacted the bus: no bus connection, no subscription, no
\* connected envelope, and no bus message ever handed to it or read by it.
C35_StoreConnectFirst ==
    \A c \in Conns :
        /\ (conn[c].kind = "ws" /\ log[c] # <<>>) => log[c][1].e = "db_new"
        /\ StoreConnectFailed(c)
           => /\ Len(log[c]) = 2
              /\ log[c][2].e = "send"
              /\ log[c][2].a.body # connected_text(conn[c].sid)
              /\ conn[c].pc = "closed"
              /\ subs[c] = {} /\ queue[c] = <<>>

\* a connection whose store connection failed, with messages published
\* afterwards and time gone by
C35_Witness ==
    \E c \in Conns :
        StoreConnectFailed(c) /\ npub >= 2 /\ now >= heartbeat_secs

\* the decodable messages on known channels that c has read
KnownRead(c) ==
    SelectSeq(Recvd(c), LAMBDA m : m.utf8 /\ Classify(m.channel) # "unknown")

\* C36: on a duplex connection the number of envelopes written for bus
\* messages is the number of decodable messages on known channels read up
\* to the first terminal one: none is lost when the loop takes a client
\* frame or a heartbeat tick in between.
C36_NoLossToMultiplexer ==
    \A c \in Conns :
        conn[c].kind = "ws"
        => Len(Forwarded(c)) = Len(UpToTerminal(KnownRead(c)))

\* the same for the connections whose session id is a UUID
C36_UuidSessions ==
    \A c \in Conns :
        (conn[c].kind = "ws" /\ parse_str(conn[c].sid).some)
        => Len(Forwarded(c)) = Len(UpToTerminal(KnownRead(c)))

\* a step of the client branch or the timer branch that leaves the
\* connection in its loop leaves the messages waiting for it as they are
C36_QueueKept ==
    [][\A c \in Conns :
          (/\ Len(log'[c]) > Len(log[c])
           /\ log'[c][Len(log[c]) + 1].e \in {"frame", "send"}
           /\ conn'[c].pc = "streaming" /\ conn[c].pc = "streaming")
          => queue'[c] = queue[c]]_vars

\* the places after i in log[c] that satisfy Is
After(c, i, Is(_)) == {k \in (i + 1)..Len(log[c]) : Is(log[c][k])}

\* whether a log entry is the store call that records a terminal outcome
IsOutcomeWrite(ev) ==
    IsStore(ev) /\ ev.a.op \in {"update_mix_status", "update_mix_error"}

\* C37: with several duplex connections of one session, every connection
\* that reads a terminal message makes the outcome write for it once and
\* writes its envelope to its own client once, as its last act; and a
\* terminal message one connection has read is waiting for every other
\* connection that is in its loop and was subscribed before it was
\* published.
C37_OncePerConnection ==
    \A c \in Conns :
        \A i \in 1..Len(log[c]) :
            (IsRecv(log[c][i]) /\ IsTerminal(Classify(log[c][i].a.channel)))
            => /\ Cardinality(After(c, i, IsOutcomeWrite)) = 1
               /\ After(c, i, IsEnvSend) = {Len(log[c])}
               /\ Carries(LastEv(log[c]).a.body, log[c][i].a)
               /\ conn[c].pc = "closed"
               /\ \A d \in Conns :
                      (/\ Subscribed(d) /\ conn[d].pc = "streaming"
                       /\ Handed(d) # <<>> /\ Handed(d)[1].seq < log[c][i].a.seq)
                      => \E k \in 1..Len(queue[d]) : queue[d][k] = log[c][i].a

\* two connections have read the same terminal message and each made its
\* own outcome write for it
C37_Witness ==
    \E c, d \in Conns :
        /\ c # d
        /\ \E i \in 1..Len(log[c]), k \in 1..Len(log[d]) :
               /\ IsRecv(log[c][i]) /\ log[d][k] = log[c][i]
               /\ IsTerminal(Classify(log[c][i].a.channel))
               /\ IsOutcomeWrite(log[c][Len(log[c]) - 1]) /\ log[c][Len(log[c]) - 1].ok
               /\ IsOutcomeWrite(log[d][Len(log[d]) - 1]) /\ log[d][Len(log[d]) - 1].ok

\* C38: a state validates true at most once, and only on the first
\* validation of it: a state that was validated before, whatever the
\* result, or that was never generated, validates false; a validated state
\* is no longer in the store.
C38_StateSingleUse ==
    /\ \A i, j \in 1..Len(validated) :
           (i < j /\ validated[i].state = validated[j].state) => ~validated[j].ok
    /\ \A i \in 1..Len(validated) :
           /\ validated[i].state = 0 => ~validated[i].ok
           /\ validated[i].state \notin DOMAIN OAUTH_STATE_STORE

\* a state validated true and, at the same time on the clock, validated
\* again
C38_Witness ==
    \E i, j \in 1..Len(validated) :
        /\ i < j /\ validated[i].state = validated[j].state
        /\ validated[i].ok /\ validated[i].at = validated[j].at

\* C39: validate_state returns true only for a state less than 300 seconds
\* old, and for every stored state that young; after every store_state call
\* the store holds the state just stored and no state 600 seconds old or
\* older. A state between 300 and 600 seconds old may still be stored, and
\* validates false.
C39_ExpiryAndEviction ==
    /\ [](\A i \in 1..Len(validated) :
            validated[i].ok
            <=> (/\ validated[i].created >= 0
                 /\ validated[i].at - validated[i].created < state_ttl_secs))
    /\ [][issued' = issued + 1
          => /\ issued' \in DOMAIN OAUTH_STATE_STORE'
             /\ OAUTH_STATE_STORE'[issued'] = now
             /\ \A x \in DOMAIN OAUTH_STATE_STORE' :
                    now - OAUTH_STATE_STORE'[x] < state_retention_secs]_vars

\* a state stored when the one before it was 300 seconds old, so that the
\* older one stayed in the store, and the older one then validated false
C39_Witness ==
    /\ issued = 2 /\ 2 \in DOMAIN OAUTH_STATE_STORE
    /\ \E i \in 1..Len(validated) :
           /\ validated[i].state = 1 /\ ~validated[i].ok
           /\ validated[i].created >= 0
           /\ validated[i].at - validated[i].created >= state_ttl_secs
           /\ OAUTH_STATE_STORE[2] - validated[i].created >= state_ttl_secs
           /\ OAUTH_STATE_STORE[2] <= validated[i].at

\* a state 600 seconds old was dropped by the store_state call for the next
C39_Evicted ==
    /\ issued = 2 /\ DOMAIN OAUTH_STATE_STORE = {2}
    /\ \A i \in 1..Len(validated) : validated[i].state # 1
====
